---- MODULE Spec2Model ----
(***************************************************************************)
(* Model of the PS2 floating point library (src/src/lib.rs): the 32-bit    *)
(* encoding, the classification predicates, the ordering, the sign rules,  *)
(* the abnormal table and the add/sub engine.                              *)
(*                                                                         *)
(* A u32 does not fit TLC's 32-bit signed integers, so a u32 is kept as    *)
(* its two 16-bit halves [hi, lo]; every u32 operation the code uses       *)
(* (|, &, <<, >>, wrapping_shr, wrapping_shl, wrapping_add, wrapping_sub)  *)
(* is computed on the halves with the width kept (mod 2^32).               *)
(***************************************************************************)
EXTENDS Integers, Sequences, FiniteSets, TLC

VARIABLES a_in, b_value, a, b, pc, result

vars == <<a_in, b_value, a, b, pc, result>>

-----------------------------------------------------------------------------
(* u32 arithmetic on 16-bit halves *)

Half == 2^16

W(hi, lo) == [hi |-> hi, lo |-> lo]

\* n as u32, for 0 <= n < 2^31
U32(n) == W(n \div Half, n % Half)

\* the value of a u32 below 2^31 (an i32 that is not negative)
AsI32(w) == w.hi * Half + w.lo

RECURSIVE And16(_, _, _)
And16(x, y, n) ==
    IF n = 0 \/ x = 0 \/ y = 0 THEN 0
    ELSE (x % 2) * (y % 2) + 2 * And16(x \div 2, y \div 2, n - 1)

RECURSIVE Or16(_, _, _)
Or16(x, y, n) ==
    IF n = 0 THEN 0
    ELSE IF x = 0 THEN y
    ELSE IF y = 0 THEN x
    ELSE (IF x % 2 = 1 \/ y % 2 = 1 THEN 1 ELSE 0) + 2 * Or16(x \div 2, y \div 2, n - 1)

\* x & y
BitAnd(x, y) == W(And16(x.hi, y.hi, 16), And16(x.lo, y.lo, 16))

\* x | y
BitOr(x, y) == W(Or16(x.hi, y.hi, 16), Or16(x.lo, y.lo, 16))

\* x >> n, 0 <= n <= 31
Shr(x, n) ==
    IF n = 0 THEN x
    ELSE IF n >= 16 THEN W(0, x.hi \div 2^(n - 16))
    ELSE W(x.hi \div 2^n, (x.lo \div 2^n) + (x.hi % 2^n) * 2^(16 - n))

\* x << n, 0 <= n <= 31
Shl(x, n) ==
    IF n = 0 THEN x
    ELSE IF n >= 16 THEN W((x.lo * 2^(n - 16)) % Half, 0)
    ELSE W((x.hi * 2^n + x.lo \div 2^(16 - n)) % Half, (x.lo * 2^n) % Half)

\* u32::wrapping_shr: the shift amount is taken modulo the width, 32
wrapping_shr(x, n) == Shr(x, n % 32)

\* u32::wrapping_shl
wrapping_shl(x, n) == Shl(x, n % 32)

\* u32::wrapping_add
wrapping_add(x, y) ==
    LET lo == x.lo + y.lo
    IN  W((x.hi + y.hi + lo \div Half) % Half, lo % Half)

\* u32::wrapping_sub
wrapping_sub(x, y) ==
    LET lo     == x.lo - y.lo
        borrow == IF lo < 0 THEN 1 ELSE 0
    IN  W((x.hi - y.hi - borrow + Half) % Half, (lo + Half) % Half)

\* x > 0 for a u32
NonZero(x) == x.hi # 0 \/ x.lo # 0

-----------------------------------------------------------------------------
(* Ps2Float: the value and its constructors *)

MAX_FLOATING_POINT_VALUE == W(32767, 65535)

MIN_FLOATING_POINT_VALUE == W(65535, 65535)

POSITIVE_INFINITY_VALUE == W(32640, 0)

NEGATIVE_INFINITY_VALUE == W(65408, 0)

IMPLICIT_LEADING_BIT_POS == 23

Ps2Float(sign, exponent, mantissa) ==
    [sign |-> sign, exponent |-> exponent, mantissa |-> mantissa]

\* #[derive(Default)]: sign false, exponent 0, mantissa 0
default == Ps2Float(FALSE, 0, U32(0))

new(value) ==
    Ps2Float(BitAnd(Shr(value, 31), U32(1)) # U32(0),
             AsI32(BitAnd(Shr(value, 23), U32(255))),
             BitAnd(value, W(127, 65535)))

from_params(sign, exponent, mantissa) == Ps2Float(sign, exponent, mantissa)

max == new(MAX_FLOATING_POINT_VALUE)

min == new(MIN_FLOATING_POINT_VALUE)

\* as_u32 with the exponent shifted to bit 22 instead of bit 23
as_u32_exponent_shift_22(self) ==
    LET r0 == U32(0)
        r1 == BitOr(r0, Shl(U32(IF self.sign THEN 1 ELSE 0), 31))
        r2 == BitOr(r1, Shl(U32(self.exponent), 22))
    IN  BitOr(r2, self.mantissa)

as_u32(self) ==
    LET r0 == U32(0)
        r1 == BitOr(r0, Shl(U32(IF self.sign THEN 1 ELSE 0), 31))
        r2 == BitOr(r1, Shl(U32(self.exponent), 23))
    IN  BitOr(r2, self.mantissa)

-----------------------------------------------------------------------------
(* Classification and ordering *)

is_denormalized(self) == self.exponent = 0

is_abnormal(self) ==
    LET val == as_u32(self)
    IN  \/ val = MAX_FLOATING_POINT_VALUE
        \/ val = MIN_FLOATING_POINT_VALUE
        \/ val = POSITIVE_INFINITY_VALUE
        \/ val = NEGATIVE_INFINITY_VALUE

is_zero(self) == BitAnd(as_u32(self), W(32767, 65535)) = U32(0)

\* Ord::cmp: signed magnitude of the low 31 bits, compared as i32
cmp(self, other) ==
    LET sm == AsI32(BitAnd(as_u32(self), W(32767, 65535)))
        om == AsI32(BitAnd(as_u32(other), W(32767, 65535)))
        s  == IF self.sign THEN -sm ELSE sm
        o  == IF other.sign THEN -om ELSE om
    IN  IF s < o THEN "Less" ELSE IF s = o THEN "Equal" ELSE "Greater"

-----------------------------------------------------------------------------
(* Outcomes: a call returns a value or panics *)

Ok(v) == [panic |-> "none", val |-> v]

Panic(msg) == [panic |-> msg, val |-> default]

OkSign(s) == [panic |-> "none", val |-> s]

PanicSign(msg) == [panic |-> msg, val |-> FALSE]

-----------------------------------------------------------------------------
(* Sign resolution *)

\* the addition sign with the zero-pair test written with "or": negative as
\* soon as one zero is negative
determine_addition_operation_sign_any_negative(x, y) ==
    IF is_zero(x) /\ is_zero(y)
    THEN IF ~x.sign /\ ~y.sign THEN OkSign(FALSE)
         ELSE IF x.sign \/ y.sign THEN OkSign(TRUE)
         ELSE PanicSign("Unhandled addition operation flags")
    ELSE OkSign(x.sign)

determine_addition_operation_sign(x, y) ==
    IF is_zero(x) /\ is_zero(y)
    THEN IF ~x.sign \/ ~y.sign THEN OkSign(FALSE)
         ELSE IF x.sign /\ y.sign THEN OkSign(TRUE)
         ELSE PanicSign("Unhandled addition operation flags")
    ELSE OkSign(x.sign)

determine_subtraction_operation_sign(x, y) ==
    IF is_zero(x) /\ is_zero(y)
    THEN IF ~x.sign \/ y.sign THEN OkSign(FALSE)
         ELSE IF x.sign /\ ~y.sign THEN OkSign(TRUE)
         ELSE PanicSign("Unhandled subtraction operation flags")
    ELSE LET b_sign == ~y.sign
             ord    == cmp(x, y)
         IN  IF ord = "Less" THEN OkSign(b_sign) ELSE OkSign(x.sign)

-----------------------------------------------------------------------------
(* Abnormal table *)

solve_abnormal_addition_or_subtraction_operation(x, y, add) ==
    LET a_val == as_u32(x)
        b_val == as_u32(y)
    IN  IF a_val = MAX_FLOATING_POINT_VALUE /\ b_val = MAX_FLOATING_POINT_VALUE
        THEN Ok(IF add THEN max ELSE default)
        ELSE IF a_val = MIN_FLOATING_POINT_VALUE /\ b_val = MIN_FLOATING_POINT_VALUE
        THEN Ok(IF add THEN min ELSE default)
        ELSE IF a_val = MIN_FLOATING_POINT_VALUE /\ b_val = MAX_FLOATING_POINT_VALUE
        THEN Ok(IF add THEN max ELSE min)
        ELSE IF a_val = MAX_FLOATING_POINT_VALUE /\ b_val = MIN_FLOATING_POINT_VALUE
        THEN Ok(IF add THEN default ELSE max)
        ELSE IF a_val = POSITIVE_INFINITY_VALUE /\ b_val = POSITIVE_INFINITY_VALUE
        THEN Ok(IF add THEN max ELSE default)
        ELSE IF a_val = NEGATIVE_INFINITY_VALUE /\ b_val = POSITIVE_INFINITY_VALUE
        THEN Ok(IF add THEN default ELSE min)
        ELSE IF a_val = NEGATIVE_INFINITY_VALUE /\ b_val = NEGATIVE_INFINITY_VALUE
        THEN Ok(IF add THEN min ELSE default)
        ELSE Panic("Unhandled abnormal floating point operation")

-----------------------------------------------------------------------------
(* Normal add/sub core *)

\* u8::abs_diff
abs_diff(x, y) == IF x >= y THEN x - y ELSE y - x

RECURSIVE msb_from(_, _)
msb_from(value, bit) ==
    IF bit < 0 THEN bit
    ELSE IF BitAnd(Shr(value, bit), U32(1)) # U32(0) THEN bit
    ELSE msb_from(value, bit - 1)

get_most_significant_bit_position(value) == msb_from(value, 31)

\* f64 of a u32 (exact: 32 bits fit the 53-bit significand), trunc(), and the
\* cast back to u32; the f64 is kept as its integer part and its fraction
f64_from_u32(w) == [int |-> w, frac |-> 0]

trunc(d) == [int |-> d.int, frac |-> 0]

f64_as_u32(d) == d.int

round_towards_zero(self) == new(f64_as_u32(trunc(f64_from_u32(as_u32(self)))))

\* "Align the exponents": the two 24-bit mantissas after the shift, and the
\* preliminary exponent of the result
align(self, other) ==
    LET exp_diff == abs_diff(self.exponent, other.exponent)
        sm       == BitOr(self.mantissa, W(128, 0))
        om       == BitOr(other.mantissa, W(128, 0))
    IN  IF self.exponent >= other.exponent
        THEN [self_mantissa  |-> sm,
              other_mantissa |-> wrapping_shr(om, exp_diff),
              exponent       |-> self.exponent]
        ELSE [self_mantissa  |-> wrapping_shr(sm, exp_diff),
              other_mantissa |-> om,
              exponent       |-> other.exponent]

\* the normalization loop; returned = TRUE when the loop returns from
\* do_add_or_sub early (saturation or flush to zero)
RECURSIVE normalize(_, _)
normalize(r, leading_bit_position) ==
    IF leading_bit_position = IMPLICIT_LEADING_BIT_POS
    THEN [returned |-> FALSE, val |-> r]
    ELSE IF leading_bit_position > IMPLICIT_LEADING_BIT_POS
    THEN IF r.exponent + 1 > 255
         THEN [returned |-> TRUE, val |-> IF r.sign THEN min ELSE max]
         ELSE normalize(Ps2Float(r.sign, r.exponent + 1, wrapping_shr(r.mantissa, 1)),
                        leading_bit_position - 1)
    ELSE IF r.exponent - 1 < 0
         THEN [returned |-> TRUE, val |-> from_params(r.sign, 0, U32(0))]
         ELSE normalize(Ps2Float(r.sign, r.exponent - 1, wrapping_shl(r.mantissa, 1)),
                        leading_bit_position + 1)

do_add_or_sub(self, other, add) ==
    LET al       == align(self, other)
        mantissa == IF add THEN wrapping_add(al.self_mantissa, al.other_mantissa)
                    ELSE wrapping_sub(al.self_mantissa, al.other_mantissa)
        sgn      == IF add THEN OkSign(self.sign)
                    ELSE determine_subtraction_operation_sign(self, other)
    IN  IF sgn.panic # "none" THEN Panic(sgn.panic)
        ELSE LET r0 == Ps2Float(sgn.val, al.exponent, mantissa)
                 n  == IF NonZero(mantissa)
                       THEN normalize(r0, get_most_significant_bit_position(mantissa))
                       ELSE [returned |-> FALSE, val |-> r0]
             IN  IF n.returned THEN Ok(n.val)
                 ELSE Ok(round_towards_zero(
                          Ps2Float(n.val.sign, n.val.exponent,
                                   BitAnd(n.val.mantissa, W(127, 65535)))))

\* the denormal short-circuit with its first two branches swapped: it keeps
\* the denormalized operand instead of the other one
solve_demoralized_operation_swapped(x, y, add) ==
    IF ~is_denormalized(x) /\ ~is_denormalized(y)
    THEN Panic("Both numbers are not denormalized")
    ELSE LET r   == IF is_denormalized(x) /\ ~is_denormalized(y) THEN x
                    ELSE IF ~is_denormalized(x) /\ is_denormalized(y) THEN y
                    ELSE default
             sgn == IF add THEN determine_addition_operation_sign(x, y)
                    ELSE determine_subtraction_operation_sign(x, y)
         IN  IF sgn.panic # "none" THEN Panic(sgn.panic)
             ELSE Ok(Ps2Float(sgn.val, r.exponent, r.mantissa))

solve_demoralized_operation(x, y, add) ==
    IF ~is_denormalized(x) /\ ~is_denormalized(y)
    THEN Panic("Both numbers are not denormalized")
    ELSE LET r   == IF is_denormalized(x) /\ ~is_denormalized(y) THEN y
                    ELSE IF ~is_denormalized(x) /\ is_denormalized(y) THEN x
                    ELSE default
             sgn == IF add THEN determine_addition_operation_sign(x, y)
                    ELSE determine_subtraction_operation_sign(x, y)
         IN  IF sgn.panic # "none" THEN Panic(sgn.panic)
             ELSE Ok(Ps2Float(sgn.val, r.exponent, r.mantissa))

\* sub without the equal-operand check
sub_no_equal_check(self, subtrahend) ==
    IF is_denormalized(self) \/ is_denormalized(subtrahend)
    THEN solve_demoralized_operation(self, subtrahend, FALSE)
    ELSE IF is_abnormal(self) /\ is_abnormal(subtrahend)
    THEN solve_abnormal_addition_or_subtraction_operation(self, subtrahend, FALSE)
    ELSE do_add_or_sub(self, subtrahend, FALSE)

sub(self, subtrahend) ==
    IF is_denormalized(self) \/ is_denormalized(subtrahend)
    THEN solve_demoralized_operation(self, subtrahend, FALSE)
    ELSE IF is_abnormal(self) /\ is_abnormal(subtrahend)
    THEN solve_abnormal_addition_or_subtraction_operation(self, subtrahend, FALSE)
    ELSE IF cmp(self, subtrahend) = "Equal"
    THEN LET sgn == determine_subtraction_operation_sign(self, subtrahend)
         IN  IF sgn.panic # "none" THEN Panic(sgn.panic)
             ELSE Ok(Ps2Float(sgn.val, new(U32(0)).exponent, new(U32(0)).mantissa))
    ELSE do_add_or_sub(self, subtrahend, FALSE)

\* add with the opposite-sign redirect to sub placed before the abnormal table
add_redirect_first(self, addend) ==
    IF is_denormalized(self) \/ is_denormalized(addend)
    THEN solve_demoralized_operation(self, addend, TRUE)
    ELSE IF self.sign # addend.sign
    THEN sub(self, addend)
    ELSE IF is_abnormal(self) /\ is_abnormal(addend)
    THEN solve_abnormal_addition_or_subtraction_operation(self, addend, TRUE)
    ELSE do_add_or_sub(self, addend, TRUE)

add(self, addend) ==
    IF is_denormalized(self) \/ is_denormalized(addend)
    THEN solve_demoralized_operation(self, addend, TRUE)
    ELSE IF is_abnormal(self) /\ is_abnormal(addend)
    THEN solve_abnormal_addition_or_subtraction_operation(self, addend, TRUE)
    ELSE IF self.sign # addend.sign
    THEN sub(self, addend)
    ELSE do_add_or_sub(self, addend, TRUE)

-----------------------------------------------------------------------------
(* Inputs and the state machine *)

\* exponents 0..MaxLowExp reach the denormal short-circuit and the underflow
\* of the normalization loop
MaxLowExp == 2

\* mantissas 0..MaxLowMant
MaxLowMant == 1

Signs == {0, 1}

Exponents == (0 .. MaxLowExp) \cup {95, 127, 128, 253, 254, 255}

\* mantissas as the pair <<bits 22..16, bits 15..0>>
Mantissas ==
    {<<0, m>> : m \in 0 .. MaxLowMant} \cup {<<64, 0>>, <<96, 0>>, <<127, 65535>>}

\* the 32-bit word with the given sign bit, exponent byte and mantissa
Word(s, e, m) == W(s * 32768 + e * 128 + m[1], m[2])

Words == {Word(s, e, m) : s \in Signs, e \in Exponents, m \in Mantissas}

\* field inputs of from_params, mantissa below 2^23
Params ==
    {[sign |-> s, exponent |-> e, mantissa |-> W(m[1], m[2])] :
        s \in BOOLEAN, e \in {0, 127, 255}, m \in {<<0, 0>>, <<64, 1>>, <<127, 65535>>}}

Inputs ==
    {[ctor |-> "new", value |-> w] : w \in Words}
    \cup {[ctor |-> "from_params", params |-> p] : p \in Params}

Init ==
    /\ a_in \in Inputs
    /\ b_value \in Words
    /\ a = default
    /\ b = default
    /\ pc = "start"
    /\ result = Ok(default)

\* let a = Ps2Float::new(..); let b = Ps2Float::new(..);
New ==
    /\ pc = "start"
    /\ a_in.ctor = "new"
    /\ a' = new(a_in.value)
    /\ b' = new(b_value)
    /\ pc' = "ready"
    /\ UNCHANGED <<a_in, b_value, result>>

\* let a = Ps2Float::from_params(..); let b = Ps2Float::new(..);
FromParams ==
    /\ pc = "start"
    /\ a_in.ctor = "from_params"
    /\ a' = from_params(a_in.params.sign, a_in.params.exponent, a_in.params.mantissa)
    /\ b' = new(b_value)
    /\ pc' = "ready"
    /\ UNCHANGED <<a_in, b_value, result>>

\* a.add(&b)
Add ==
    /\ pc = "ready"
    /\ result' = add(a, b)
    /\ pc' = "add"
    /\ UNCHANGED <<a_in, b_value, a, b>>

\* a.sub(&b)
Sub ==
    /\ pc = "ready"
    /\ result' = sub(a, b)
    /\ pc' = "sub"
    /\ UNCHANGED <<a_in, b_value, a, b>>

Next == New \/ FromParams \/ Add \/ Sub

Spec == Init /\ [][Next]_vars

-----------------------------------------------------------------------------
(* Vocabulary of the properties *)

\* an add or a sub has been applied to a and b
Done == pc \in {"add", "sub"}

Returned == result.panic = "none"

PLUS_ZERO == U32(0)

MINUS_ZERO == W(32768, 0)

\* the low 31 bits of a word
Low31(w) == BitAnd(w, W(32767, 65535))

IsInfinity(w) == w \in {POSITIVE_INFINITY_VALUE, NEGATIVE_INFINITY_VALUE}

BothAbnormal == is_abnormal(a) /\ is_abnormal(b)

\* exponent # 0 and not one of the four abnormal encodings
IsNormal(x) == ~is_denormalized(x) /\ ~is_abnormal(x)

MaxExponent == IF a.exponent >= b.exponent THEN a.exponent ELSE b.exponent

\* the dispatch of the applied operation reached do_add_or_sub
ReachedArithmetic ==
    /\ Done
    /\ ~is_denormalized(a) /\ ~is_denormalized(b)
    /\ ~BothAbnormal
    /\ (pc = "add" /\ a.sign = b.sign) \/ cmp(a, b) # "Equal"

\* x >> n as a shift by exactly n positions, for any n >= 0
ExactShr(x, n) == IF n >= 32 THEN U32(0) ELSE Shr(x, n)

-----------------------------------------------------------------------------
(* C1. No denormal results: whenever a.add(b) or a.sub(b) returns r,       *)
(* r.exponent = 0 implies r.mantissa = 0.                                  *)
C1_NoDenormalResult ==
    (Done /\ Returned) =>
        (result.val.exponent = 0 => result.val.mantissa = U32(0))

-----------------------------------------------------------------------------
(* C2. For operands that are not both abnormal, neither add nor sub        *)
(* returns +INF or -INF.                                                   *)
C2_NoInfinityResult ==
    (Done /\ Returned /\ ~BothAbnormal) => ~IsInfinity(as_u32(result.val))

\* exactly one operand is denormalized and the other one is +INF or -INF
C2_InfinityWithDenormal ==
    \/ is_denormalized(a) /\ ~is_denormalized(b) /\ IsInfinity(as_u32(b))
    \/ is_denormalized(b) /\ ~is_denormalized(a) /\ IsInfinity(as_u32(a))

\* C2 as amended: for operands that are not both abnormal, add and sub return
\* +INF or -INF only (i) from the denormal short-circuit, when one operand has
\* exponent 0 and the other is an infinity, and then they always do (the low
\* 31 bits of the result are those of the infinity), or (ii) from the
\* arithmetic on two operands of exponent # 0 whose larger exponent is 0xFE
\* or 0xFF; in every other case the result is no infinity.
C2_InfinityOnlyFromInfinityOrTopExponent ==
    (Done /\ ~BothAbnormal) =>
        /\ Returned
        /\ C2_InfinityWithDenormal =>
               Low31(as_u32(result.val)) = POSITIVE_INFINITY_VALUE
        /\ (/\ ~C2_InfinityWithDenormal
            /\ ~(~is_denormalized(a) /\ ~is_denormalized(b) /\ MaxExponent >= 254))
               => ~IsInfinity(as_u32(result.val))

\* 0 + INF = INF and 0x7F000000 + 0x7F000000 = 0x7F800000 have been computed
C2_Witness ==
    /\ pc = "add"
    /\ Returned
    /\ as_u32(result.val) = POSITIVE_INFINITY_VALUE
    /\ \/ as_u32(a) = PLUS_ZERO /\ as_u32(b) = POSITIVE_INFINITY_VALUE
       \/ as_u32(a) = W(32512, 0) /\ as_u32(b) = W(32512, 0)

-----------------------------------------------------------------------------
(* C3. Commutativity of add: for a and b both normal, of equal or of       *)
(* opposite signs, a.add(b).as_u32() = b.add(a).as_u32().                  *)
C3_AddCommutative ==
    (pc = "add" /\ IsNormal(a) /\ IsNormal(b)) =>
        /\ Returned
        /\ add(b, a).panic = "none"
        /\ as_u32(result.val) = as_u32(add(b, a).val)

-----------------------------------------------------------------------------
(* C4. Abnormal table: for the seven listed ordered pairs of abnormal      *)
(* operands add and sub return exactly the table entry; add consults the   *)
(* table before its opposite-sign redirect, so MAX.add(MIN) is +0.         *)
AbnormalTable ==
    LET MAXV == MAX_FLOATING_POINT_VALUE
        MINV == MIN_FLOATING_POINT_VALUE
        PINF == POSITIVE_INFINITY_VALUE
        NINF == NEGATIVE_INFINITY_VALUE
    IN  { <<MAXV, MAXV, MAXV, PLUS_ZERO>>,
          <<MINV, MINV, MINV, PLUS_ZERO>>,
          <<MINV, MAXV, MAXV, MINV>>,
          <<MAXV, MINV, PLUS_ZERO, MAXV>>,
          <<PINF, PINF, MAXV, PLUS_ZERO>>,
          <<NINF, PINF, PLUS_ZERO, MINV>>,
          <<NINF, NINF, MINV, PLUS_ZERO>> }

-----------------------------------------------------------------------------
(* C5. add and sub never panic: for every pair of encodings a.add(b) and   *)
(* a.sub(b) return a value.                                                *)
C5_NeverPanics == Done => Returned

-----------------------------------------------------------------------------
(* C6. Signed-zero table: for a, b in {+0, -0}, a.add(b) is -0 only for    *)
(* (-0)+(-0) and +0 otherwise; a.sub(b) is -0 only for (-0)-(+0) and +0    *)
(* otherwise.                                                              *)
C6_SignedZeroTable ==
    (Done /\ as_u32(a) \in {PLUS_ZERO, MINUS_ZERO}
          /\ as_u32(b) \in {PLUS_ZERO, MINUS_ZERO}) =>
        /\ Returned
        /\ pc = "add" =>
               as_u32(result.val) =
                   IF as_u32(a) = MINUS_ZERO /\ as_u32(b) = MINUS_ZERO
                   THEN MINUS_ZERO ELSE PLUS_ZERO
        /\ pc = "sub" =>
               as_u32(result.val) =
                   IF as_u32(a) = MINUS_ZERO /\ as_u32(b) = PLUS_ZERO
                   THEN MINUS_ZERO ELSE PLUS_ZERO

\* (-0).add(+0) has returned +0
C6_Witness ==
    /\ pc = "add"
    /\ as_u32(a) = MINUS_ZERO
    /\ as_u32(b) = PLUS_ZERO
    /\ Returned
    /\ as_u32(result.val) = PLUS_ZERO

-----------------------------------------------------------------------------
(* C7. A zero operand is neutral: for x of exponent # 0 and z in {+0, -0}, *)
(* x.add(z) = x, z.add(x) = x and x.sub(z) = x bit for bit, and z.sub(x)   *)
(* is x with only its sign bit flipped.                                    *)
C7_ZeroIsNeutral ==
    /\ (Done /\ ~is_denormalized(a) /\ is_zero(b)) =>
           Returned /\ as_u32(result.val) = as_u32(a)
    /\ (pc = "add" /\ is_zero(a) /\ ~is_denormalized(b)) =>
           Returned /\ as_u32(result.val) = as_u32(b)
    /\ (pc = "sub" /\ is_zero(a) /\ ~is_denormalized(b)) =>
           Returned /\ as_u32(result.val) = as_u32(Ps2Float(~b.sign, b.exponent, b.mantissa))

-----------------------------------------------------------------------------
(* C8. Equal-operand subtraction yields zero: for a and b that compare     *)
(* Equal and are neither denormalized nor abnormal, a.sub(b) has its low   *)
(* 31 bits zero.                                                           *)
C8_EqualSubIsZero ==
    (pc = "sub" /\ cmp(a, b) = "Equal" /\ IsNormal(a) /\ IsNormal(b)) =>
        /\ Returned
        /\ Low31(as_u32(result.val)) = U32(0)
        /\ result.val.exponent = 0
        /\ result.val.mantissa = U32(0)

\* 1.0 - 1.0 has returned +0
C8_Witness ==
    /\ pc = "sub"
    /\ as_u32(a) = W(16256, 0)
    /\ as_u32(b) = W(16256, 0)
    /\ Returned
    /\ as_u32(result.val) = PLUS_ZERO

-----------------------------------------------------------------------------
(* C9. Encoding round trip: new(v).as_u32() = v for every word v; and for  *)
(* every sign, exponent and mantissa m < 2^23,                             *)
(* from_params(sign, exponent, m).as_u32() = sign*2^31 + exponent*2^23 + m *)
(* and new() of that word yields the same three fields back.               *)
C9_RoundTrip ==
    (pc = "ready") =>
        /\ as_u32(b) = b_value
        /\ a_in.ctor = "new" => as_u32(a) = a_in.value
        /\ a_in.ctor = "from_params" =>
               LET p == a_in.params
                   w == W((IF p.sign THEN 32768 ELSE 0) + p.exponent * 128 + p.mantissa.hi,
                          p.mantissa.lo)
               IN  /\ as_u32(a) = w
                   /\ new(w) = Ps2Float(p.sign, p.exponent, p.mantissa)

\* from_params(true, 0xFF, 0x7FFFFF) has been built and encodes as 0xFFFFFFFF,
\* next to new(0x3F800000)
C9_Witness ==
    /\ pc = "ready"
    /\ a_in.ctor = "from_params"
    /\ a_in.params = [sign |-> TRUE, exponent |-> 255, mantissa |-> W(127, 65535)]
    /\ as_u32(a) = MIN_FLOATING_POINT_VALUE
    /\ b_value = W(16256, 0)
    /\ b = Ps2Float(FALSE, 127, U32(0))

-----------------------------------------------------------------------------
(* C10. Exponent alignment: in the arithmetic the 24-bit mantissa of the   *)
(* operand with the smaller exponent is shifted right by exactly           *)
(* D = |a.exponent - b.exponent| positions for every D in 0..254 (so it    *)
(* contributes 0 for D >= 24), and the preliminary exponent is the larger  *)
(* operand exponent.                                                       *)
C10_AlignmentShiftsByExponentDifference ==
    ReachedArithmetic =>
        LET D  == abs_diff(a.exponent, b.exponent)
            am == BitOr(a.mantissa, W(128, 0))
            bm == BitOr(b.mantissa, W(128, 0))
            al == align(a, b)
        IN  /\ al.exponent = MaxExponent
            /\ a.exponent >= b.exponent =>
                   al.self_mantissa = am /\ al.other_mantissa = ExactShr(bm, D)
            /\ a.exponent < b.exponent =>
                   al.other_mantissa = bm /\ al.self_mantissa = ExactShr(am, D)
            /\ D >= 24 =>
                   (IF a.exponent >= b.exponent THEN al.other_mantissa
                    ELSE al.self_mantissa) = U32(0)

-----------------------------------------------------------------------------
\* x with only its sign bit flipped
Negated(x) == Ps2Float(~x.sign, x.exponent, x.mantissa)

-----------------------------------------------------------------------------
(* C11. Adding a value to its negation gives zero: for every x that is     *)
(* neither denormalized nor abnormal and y = x with only the sign bit      *)
(* flipped, x.add(y) returns a value whose low 31 bits are zero.           *)
C11_AddNegationIsZero ==
    (pc = "add" /\ IsNormal(a) /\ b = Negated(a)) =>
        Returned /\ Low31(as_u32(result.val)) = U32(0)

-----------------------------------------------------------------------------
(* C12. Subtraction is addition of the negation: for all a and b that are  *)
(* neither denormalized nor abnormal, a.sub(b).as_u32() =                  *)
(* a.add(b').as_u32(), b' being b with only its sign bit flipped.          *)
C12_SubIsAddOfNegation ==
    (pc = "sub" /\ IsNormal(a) /\ IsNormal(b)) =>
        /\ Returned
        /\ add(a, Negated(b)).panic = "none"
        /\ as_u32(result.val) = as_u32(add(a, Negated(b)).val)

====
